---- MODULE Spec2Model ----
(***************************************************************************)
(* SpendWise (src/spendwise/spend.py): the __main__ sequence               *)
(*   log_expense_from_voice(1); generate_summary x3; fetch_stock_data()    *)
(* with parse_expense_details as a pure operator over the recognized text. *)
(*                                                                         *)
(* A text is a sequence of pieces; a piece is either one whitespace        *)
(* character or one whole token of the vocabulary.  Two tokens are never   *)
(* adjacent (they would be one longer token), whitespace may repeat and    *)
(* may lead or trail.  A Python str value is modelled the same way.        *)
(* A float is a record (class, sign, magnitude in hundredths).             *)
(***************************************************************************)
EXTENDS Integers, Sequences, FiniteSets, TLC

\* ---------------------------------------------------------------- bounds
MaxLen == 5
MaxStock == 2

\* ------------------------------------------------------------- constants
UserId == 1

WS == " "
Vocab == {"coffee", "lunch", "5", "4.50", "0", "-0", "inf", "nan"}
Pieces == Vocab \cup {WS}

WellFormed(t) == \A i \in 1..(Len(t) - 1) : t[i] = WS \/ t[i + 1] = WS
Texts == {t \in UNION {[1..n -> Pieces] : n \in 0..MaxLen} : WellFormed(t)}

\* ------------------------------------------------------- Python values
NoneAmount == [cls |-> "None", neg |-> FALSE, mag |-> 0]
UnboundAmount == [cls |-> "unbound", neg |-> FALSE, mag |-> 0]
Finite(n, m) == [cls |-> "finite", neg |-> n, mag |-> m]
Infinity == [cls |-> "inf", neg |-> FALSE, mag |-> 0]
NaN == [cls |-> "nan", neg |-> FALSE, mag |-> 0]

NoneStr == [st |-> "None", s |-> <<>>]
UnboundStr == [st |-> "unbound", s |-> <<>>]
Str(s) == [st |-> "str", s |-> s]

NoExc == [type |-> "none", msg |-> ""]
ParseValueError ==
  [type |-> "ValueError", msg |-> "could not parse expense details from the text."]

\* float(word): the value, or ValueError (ok = FALSE)
Float(word) ==
  CASE word = "5" -> [ok |-> TRUE, val |-> Finite(FALSE, 500)]
    [] word = "4.50" -> [ok |-> TRUE, val |-> Finite(FALSE, 450)]
    [] word = "0" -> [ok |-> TRUE, val |-> Finite(FALSE, 0)]
    [] word = "-0" -> [ok |-> TRUE, val |-> Finite(TRUE, 0)]
    [] word = "inf" -> [ok |-> TRUE, val |-> Infinity]
    [] word = "nan" -> [ok |-> TRUE, val |-> NaN]
    [] OTHER -> [ok |-> FALSE, val |-> NoneAmount]

\* text.split(): the tokens, whitespace runs dropped
Split(t) == SelectSeq(t, LAMBDA p : p # WS)

\* " ".join(ws)
RECURSIVE Join(_)
Join(ws) ==
  IF Len(ws) = 0 THEN <<>>
  ELSE IF Len(ws) = 1 THEN <<ws[1]>>
  ELSE <<ws[1], WS>> \o Join(Tail(ws))

\* words.index(word): position of the first element equal to word
Index(words, word) ==
  CHOOSE k \in 1..Len(words) :
    words[k] = word /\ \A j \in 1..(k - 1) : words[j] # word

\* the for loop: amount and the loop variable word when the loop ends
RECURSIVE ScanLast(_, _)
ScanLast(words, k) ==
  IF k = 0 THEN [amount |-> NoneAmount, word |-> UnboundStr]
  ELSE IF Float(words[k]).ok
       THEN [amount |-> Float(words[k]).val, word |-> Str(<<words[k]>>)]
       ELSE ScanLast(words, k - 1)

RECURSIVE ScanFrom(_, _)
ScanFrom(words, k) ==
  IF k > Len(words)
  THEN [amount |-> NoneAmount,
        word |-> IF Len(words) = 0 THEN UnboundStr
                 ELSE Str(<<words[Len(words)]>>)]
  ELSE IF Float(words[k]).ok
       THEN [amount |-> Float(words[k]).val, word |-> Str(<<words[k]>>)]
       ELSE ScanFrom(words, k + 1)

FirstNumber_Last(words) == ScanLast(words, Len(words))

FirstNumber(words) == ScanFrom(words, 1)

\* truth value of a float or None
Truthy_IsNotNone(a) == a.cls # "None"

Truthy(a) == ~(a.cls = "None" \/ (a.cls = "finite" /\ a.mag = 0))

\* truth value of a str or None
StrTruthy(d) == d.st = "str" /\ Len(d.s) > 0

\* lines 108-111
DescriptionOf(words, scan) ==
  IF Truthy(scan.amount)
  THEN Str(Join(SubSeq(words, Index(words, scan.word.s[1]) + 1, Len(words))))
  ELSE NoneStr

\* line 113
MustRaise_OnlyEmptyStr(amount, description) ==
  description.st = "str" /\ Len(description.s) = 0

MustRaise_NoDescription(amount, description) == ~Truthy(amount)

MustRaise(amount, description) == ~Truthy(amount) \/ ~StrTruthy(description)

parse_expense_details(t) ==
  LET words == Split(t)
      scan == FirstNumber(words)
      amount == scan.amount
      description == DescriptionOf(words, scan)
  IN IF MustRaise(amount, description)
     THEN [raised |-> TRUE, exc |-> ParseValueError,
           description |-> UnboundStr, amount |-> UnboundAmount]
     ELSE [raised |-> FALSE, exc |-> NoExc,
           description |-> description, amount |-> amount]

\* ------------------------------------------------------------------ state
VARIABLES
  pc,            \* position in the __main__ sequence
  period,        \* argument of the current generate_summary call
  text,          \* log_expense_from_voice: recognized text
  description,   \* log_expense_from_voice: local
  amount,        \* log_expense_from_voice: local
  db,            \* local db of the running function
  cursor,        \* local cursor of the running function
  total_amount,  \* generate_summary: local
  remaining,     \* fetch_stock_data: entries of the time series still to store
  exc,           \* exception on its way to the except clause of the running function
  uncaught,      \* exception that left the running function (the program ended)
  conns,         \* every connection connect_to_db returned: who opened it, still open?
  expenses,      \* INSERT INTO expenses executions, in order
  summaries,     \* rows of summaries
  stockdata      \* number of rows of stockdata

vars == <<pc, period, text, description, amount, db, cursor, total_amount,
          remaining, exc, uncaught, conns, expenses, summaries, stockdata>>

UnboundRef == [st |-> "unbound", id |-> 0]
NoneRef == [st |-> "None", id |-> 0]
Ref(i) == [st |-> "obj", id |-> i]

Exc(t) == [type |-> t, msg |-> ""]

Crashed == uncaught.type # "none"

Init ==
  /\ pc = "log_listen"
  /\ period = "none"
  /\ text = UnboundStr
  /\ description = UnboundStr
  /\ amount = UnboundAmount
  /\ db = UnboundRef
  /\ cursor = UnboundRef
  /\ total_amount = "unbound"
  /\ remaining = 0
  /\ exc = NoExc
  /\ uncaught = NoExc
  /\ conns = <<>>
  /\ expenses = <<>>
  /\ summaries = <<>>
  /\ stockdata = 0

\* db = connect_to_db(): a new open connection, or None after a connector error
connect_to_db(owner) ==
  \E ok \in BOOLEAN :
    IF ok
    THEN /\ conns' = Append(conns, [owner |-> owner, open |-> TRUE])
         /\ db' = Ref(Len(conns) + 1)
    ELSE /\ db' = NoneRef
         /\ UNCHANGED conns

\* db.close()
Close(c) == [conns EXCEPT ![c.id].open = FALSE]

\* ------------------------------------------------ log_expense_from_voice
LogListen ==
  /\ pc = "log_listen" /\ ~Crashed
  /\ \E t \in Texts : text' = Str(t)
  /\ pc' = "log_parse"
  /\ UNCHANGED <<period, description, amount, db, cursor, total_amount,
                 remaining, exc, uncaught, conns, expenses, summaries, stockdata>>

\* the microphone or the recognizer raises
LogListenFails ==
  /\ pc = "log_listen" /\ ~Crashed
  /\ exc' = Exc("RecognitionError")
  /\ pc' = "log_except"
  /\ UNCHANGED <<period, text, description, amount, db, cursor, total_amount,
                 remaining, uncaught, conns, expenses, summaries, stockdata>>

LogParse ==
  /\ pc = "log_parse" /\ ~Crashed
  /\ LET r == parse_expense_details(text.s)
     IN IF r.raised
        THEN /\ exc' = r.exc
             /\ pc' = "log_except"
             /\ UNCHANGED <<description, amount>>
        ELSE /\ description' = r.description
             /\ amount' = r.amount
             /\ pc' = "log_connect"
             /\ UNCHANGED exc
  /\ UNCHANGED <<period, text, db, cursor, total_amount, remaining, uncaught,
                 conns, expenses, summaries, stockdata>>

LogConnect ==
  /\ pc = "log_connect" /\ ~Crashed
  /\ connect_to_db("log_expense_from_voice")
  /\ pc' = "log_cursor"
  /\ UNCHANGED <<period, text, description, amount, cursor, total_amount,
                 remaining, exc, uncaught, expenses, summaries, stockdata>>

LogCursor ==
  /\ pc = "log_cursor" /\ ~Crashed
  /\ IF db.st = "None"
     THEN /\ exc' = Exc("AttributeError")
          /\ pc' = "log_except"
          /\ UNCHANGED cursor
     ELSE /\ cursor' = Ref(db.id)
          /\ pc' = "log_insert"
          /\ UNCHANGED exc
  /\ UNCHANGED <<period, text, description, amount, db, total_amount,
                 remaining, uncaught, conns, expenses, summaries, stockdata>>

ExpenseRow(ok) ==
  [user_id |-> UserId, description |-> description, amount |-> amount,
   ok |-> ok, committed |-> FALSE]

LogInsert_Twice ==
  /\ pc = "log_insert" /\ ~Crashed
  /\ \E ok \in BOOLEAN :
       /\ expenses' = expenses \o <<ExpenseRow(ok), ExpenseRow(ok)>>
       /\ IF ok
          THEN pc' = "log_commit" /\ UNCHANGED exc
          ELSE pc' = "log_except" /\ exc' = Exc("mysql.connector.Error")
  /\ UNCHANGED <<period, text, description, amount, db, cursor, total_amount,
                 remaining, uncaught, conns, summaries, stockdata>>

LogInsert ==
  /\ pc = "log_insert" /\ ~Crashed
  /\ \E ok \in BOOLEAN :
       /\ expenses' = Append(expenses, ExpenseRow(ok))
       /\ IF ok
          THEN pc' = "log_commit" /\ UNCHANGED exc
          ELSE pc' = "log_except" /\ exc' = Exc("mysql.connector.Error")
  /\ UNCHANGED <<period, text, description, amount, db, cursor, total_amount,
                 remaining, uncaught, conns, summaries, stockdata>>

LogCommit ==
  /\ pc = "log_commit" /\ ~Crashed
  /\ \E ok \in BOOLEAN :
       IF ok
       THEN /\ expenses' = [expenses EXCEPT ![Len(expenses)].committed = TRUE]
            /\ pc' = "log_finally"
            /\ UNCHANGED exc
       ELSE /\ exc' = Exc("mysql.connector.Error")
            /\ pc' = "log_except"
            /\ UNCHANGED expenses
  /\ UNCHANGED <<period, text, description, amount, db, cursor, total_amount,
                 remaining, uncaught, conns, summaries, stockdata>>

\* except Exception as e: print
LogExcept ==
  /\ pc = "log_except" /\ ~Crashed
  /\ exc' = NoExc
  /\ pc' = "log_finally"
  /\ UNCHANGED <<period, text, description, amount, db, cursor, total_amount,
                 remaining, uncaught, conns, expenses, summaries, stockdata>>

\* finally: "if cursor" reads a local that is bound only once line 133 has run
LogFinally ==
  /\ pc = "log_finally" /\ ~Crashed
  /\ IF cursor.st = "unbound"
     THEN /\ uncaught' = Exc("UnboundLocalError")
          /\ UNCHANGED <<pc, period, text, description, amount, db, cursor, conns>>
     ELSE /\ conns' = IF db.st = "obj" THEN Close(db) ELSE conns
          /\ pc' = "summary_connect"
          /\ period' = "daily"
          /\ text' = UnboundStr
          /\ description' = UnboundStr
          /\ amount' = UnboundAmount
          /\ db' = UnboundRef
          /\ cursor' = UnboundRef
          /\ UNCHANGED uncaught
  /\ UNCHANGED <<total_amount, remaining, exc, expenses, summaries, stockdata>>

\* -------------------------------------------------------- generate_summary
SummaryConnect ==
  /\ pc = "summary_connect" /\ ~Crashed
  /\ connect_to_db("generate_summary")
  /\ pc' = "summary_cursor"
  /\ UNCHANGED <<period, text, description, amount, cursor, total_amount,
                 remaining, exc, uncaught, expenses, summaries, stockdata>>

\* cursor = db.cursor() is outside every try
SummaryCursor ==
  /\ pc = "summary_cursor" /\ ~Crashed
  /\ IF db.st = "None"
     THEN /\ uncaught' = Exc("AttributeError")
          /\ UNCHANGED <<pc, cursor>>
     ELSE /\ cursor' = Ref(db.id)
          /\ pc' = "summary_select"
          /\ UNCHANGED uncaught
  /\ UNCHANGED <<period, text, description, amount, db, total_amount,
                 remaining, exc, conns, expenses, summaries, stockdata>>

\* SELECT SUM(amount): the fetched total, or 0.0 after a connector error
SummarySelect ==
  /\ pc = "summary_select" /\ ~Crashed
  /\ \E ok \in BOOLEAN : total_amount' = IF ok THEN "SUM" ELSE "0.0"
  /\ pc' = "summary_insert"
  /\ UNCHANGED <<period, text, description, amount, db, cursor, remaining,
                 exc, uncaught, conns, expenses, summaries, stockdata>>

NextPeriod(p) ==
  CASE p = "daily" -> "weekly"
    [] p = "weekly" -> "monthly"
    [] OTHER -> "none"

\* INSERT INTO summaries, commit; the function returns without closing db
SummaryInsert ==
  /\ pc = "summary_insert" /\ ~Crashed
  /\ \E ok \in BOOLEAN :
       summaries' = IF ok
                    THEN Append(summaries, [user_id |-> UserId, period |-> period,
                                            total_amount |-> total_amount])
                    ELSE summaries
  /\ period' = NextPeriod(period)
  /\ pc' = IF period = "monthly" THEN "fetch_connect" ELSE "summary_connect"
  /\ db' = UnboundRef
  /\ cursor' = UnboundRef
  /\ total_amount' = "unbound"
  /\ UNCHANGED <<text, description, amount, remaining, exc, uncaught,
                 conns, expenses, stockdata>>

\* -------------------------------------------------------- fetch_stock_data
FetchConnect ==
  /\ pc = "fetch_connect" /\ ~Crashed
  /\ connect_to_db("fetch_stock_data")
  /\ cursor' = IF db'.st = "obj" THEN Ref(db'.id) ELSE NoneRef
  /\ pc' = "fetch_request"
  /\ UNCHANGED <<period, text, description, amount, total_amount, remaining,
                 exc, uncaught, expenses, summaries, stockdata>>

\* requests.get ... data: a RequestException, an unexpected format, or a
\* time series of n entries
FetchRequest ==
  /\ pc = "fetch_request" /\ ~Crashed
  /\ \/ /\ remaining' = 0
        /\ pc' = "fetch_finally"
     \/ \E n \in 1..MaxStock :
          /\ remaining' = n
          /\ pc' = "fetch_insert"
  /\ UNCHANGED <<period, text, description, amount, db, cursor, total_amount,
                 exc, uncaught, conns, expenses, summaries, stockdata>>

\* one iteration of the loop over stock_data.items(): the row is stored, the
\* INSERT fails (caught inside the loop), or the entry is malformed or the
\* cursor is None (caught by the outer except Exception, which ends the loop)
FetchInsert ==
  /\ pc = "fetch_insert" /\ ~Crashed
  /\ \E outcome \in {"stored", "mysql.connector.Error", "bad entry"} :
       IF outcome = "bad entry" \/ cursor.st = "None"
       THEN /\ remaining' = 0
            /\ pc' = "fetch_finally"
            /\ UNCHANGED stockdata
       ELSE /\ stockdata' = IF outcome = "stored" THEN stockdata + 1 ELSE stockdata
            /\ remaining' = remaining - 1
            /\ pc' = IF remaining = 1 THEN "fetch_finally" ELSE "fetch_insert"
  /\ UNCHANGED <<period, text, description, amount, db, cursor, total_amount,
                 exc, uncaught, conns, expenses, summaries>>

FetchFinally ==
  /\ pc = "fetch_finally" /\ ~Crashed
  /\ conns' = IF db.st = "obj" THEN Close(db) ELSE conns
  /\ db' = UnboundRef
  /\ cursor' = UnboundRef
  /\ pc' = "done"
  /\ UNCHANGED <<period, text, description, amount, total_amount, remaining,
                 exc, uncaught, expenses, summaries, stockdata>>

Next ==
  \/ LogListen
  \/ LogListenFails
  \/ LogParse
  \/ LogConnect
  \/ LogCursor
  \/ LogInsert
  \/ LogCommit
  \/ LogExcept
  \/ LogFinally
  \/ SummaryConnect
  \/ SummaryCursor
  \/ SummarySelect
  \/ SummaryInsert
  \/ FetchConnect
  \/ FetchRequest
  \/ FetchInsert
  \/ FetchFinally

Spec == Init /\ [][Next]_vars

TypeOK ==
  /\ pc \in {"log_listen", "log_parse", "log_connect", "log_cursor", "log_insert",
             "log_commit", "log_except", "log_finally", "summary_connect",
             "summary_cursor", "summary_select", "summary_insert", "fetch_connect",
             "fetch_request", "fetch_insert", "fetch_finally", "done"}
  /\ remaining \in 0..MaxStock
  /\ stockdata \in 0..MaxStock
  /\ Len(conns) <= 5

\* ------------------------------------------------------------- properties
IsNumber(w) == Float(w).ok

\* i is the position of the first token of ws that float() accepts
FirstNumberAt(ws, i) ==
  /\ i \in 1..Len(ws)
  /\ IsNumber(ws[i])
  /\ \A j \in 1..(i - 1) : ~IsNumber(ws[j])

IsZero(a) == a.cls = "finite" /\ a.mag = 0

\* s is toks joined by single spaces, toks not empty
SingleSpaced(s, toks) ==
  /\ Len(toks) > 0
  /\ Len(s) = 2 * Len(toks) - 1
  /\ \A k \in 1..Len(s) : s[k] = IF k % 2 = 1 THEN toks[(k + 1) \div 2] ELSE WS

\* line 130 has run on the recognized text
ParseDone == text.st = "str" /\ pc # "log_parse"
\* ... and returned (description, amount)
ParseReturned == ParseDone /\ description.st # "unbound"
\* ... and raised
ParseRaised ==
  /\ ParseDone
  /\ description.st = "unbound"
  /\ amount.cls = "unbound"
  /\ pc \in {"log_except", "log_finally"}
  /\ pc = "log_except" => exc = ParseValueError
\* the exception is in the hands of the caller's except clause
ParseFailureSeen == ParseDone /\ description.st = "unbound" /\ pc = "log_except"

\* the failure of a text without any number, e.g. the empty text
NoAmountFoundFailure == parse_expense_details(<<>>).exc

\* C1: whenever the parser returns, amount is the value of the first token
\* that parses as a number and description is the single-space join of all
\* the tokens after that position, which is not empty.
C1_FirstNumberAndRest ==
  ParseReturned =>
    \E i \in 1..Len(Split(text.s)) :
      /\ FirstNumberAt(Split(text.s), i)
      /\ amount = Float(Split(text.s)[i]).val
      /\ description.st = "str"
      /\ SingleSpaced(description.s,
                      SubSeq(Split(text.s), i + 1, Len(Split(text.s))))

\* the amount's token text occurs again after the first number
C1_Witness ==
  /\ ParseReturned
  /\ \E i, j \in 1..Len(Split(text.s)) :
       /\ FirstNumberAt(Split(text.s), i)
       /\ i < j
       /\ Split(text.s)[j] = Split(text.s)[i]

\* C2: non-numeric words, a number, then one or more words: the parser
\* returns that number and the words after it joined by single spaces.
C2_NumberThenWordsSucceeds ==
  \A i \in 1..Len(Split(text.s)) :
    (ParseDone /\ FirstNumberAt(Split(text.s), i) /\ i < Len(Split(text.s))) =>
      /\ ParseReturned
      /\ amount = Float(Split(text.s)[i]).val
      /\ description.st = "str"
      /\ SingleSpaced(description.s,
                      SubSeq(Split(text.s), i + 1, Len(Split(text.s))))

\* C3: a text without any numeric token (the empty and the whitespace-only
\* text included) gives no result: the parser raises its ValueError.
C3_NoNumberFails ==
  (ParseDone /\ \A i \in 1..Len(Split(text.s)) : ~IsNumber(Split(text.s)[i])) =>
    ParseRaised

\* a whitespace-only text has failed
C3_Witness ==
  /\ ParseFailureSeen
  /\ exc = ParseValueError
  /\ Len(text.s) > 0
  /\ Split(text.s) = <<>>

\* C4 as claimed: when the first numeric token is the last token the parser
\* fails with a failure the caller can tell apart from the no-amount failure.
C4_EmptyDescriptionDistinct ==
  (ParseFailureSeen
     /\ FirstNumberAt(Split(text.s), Len(Split(text.s)))) =>
    /\ exc.type = "ValueError"
    /\ exc # NoAmountFoundFailure

\* C4 amended: when the first numeric token is the last token the parser
\* fails with the ValueError of line 114, which is the very failure of a text
\* without a number and the only failure the parser raises.
C4_EmptyDescriptionFails ==
  /\ (ParseDone /\ FirstNumberAt(Split(text.s), Len(Split(text.s)))) => ParseRaised
  /\ ParseFailureSeen => (exc = ParseValueError /\ exc = NoAmountFoundFailure)

\* a non-zero number as the last token has failed
C4_Witness ==
  /\ ParseFailureSeen
  /\ exc = ParseValueError
  /\ FirstNumberAt(Split(text.s), Len(Split(text.s)))
  /\ ~IsZero(Float(Split(text.s)[Len(Split(text.s))]).val)

\* C5: after a parse failure no exception leaves log_expense_from_voice.
C5_ParseFailureRecoverable ==
  (ParseDone /\ description.st = "unbound") => ~Crashed

\* C6: a returned amount is a finite number.
C6_AmountFinite == ParseReturned => amount.cls = "finite"

C9_ZeroFirstNumberFails ==
  \A i \in 1..Len(Split(text.s)) :
    (ParseDone /\ FirstNumberAt(Split(text.s), i)
       /\ IsZero(Float(Split(text.s)[i]).val)) => ParseRaised

\* a zero followed by a non-zero number has failed
C9_Witness ==
  /\ ParseFailureSeen
  /\ \E i, j \in 1..Len(Split(text.s)) :
       /\ FirstNumberAt(Split(text.s), i)
       /\ IsZero(Float(Split(text.s)[i]).val)
       /\ i < j
       /\ IsNumber(Split(text.s)[j])
       /\ Truthy(Float(Split(text.s)[j]).val)

\* C10: a connection is open only while the call that obtained it is
\* running; none is open once the main sequence has finished or stopped.
C10_ConnectionsClosed ==
  \A k \in 1..Len(conns) :
    conns[k].open => (db = Ref(k) /\ pc # "done" /\ ~Crashed)

====
